---------------------------- MODULE Spec2Model ----------------------------
(***************************************************************************)
(* Country RTT map (src/app.js): the metric estimation and colour scaling  *)
(* engine, the render-state snapshot and the refresh scheduler.            *)
(*                                                                         *)
(* JavaScript values are records [t, v, d, e]: t is the kind ("num",       *)
(* "null", "undef", "nan", and for table cells also "blank", "space",      *)
(* "text"), and a number is v/d * 2^e, v/d in lowest terms with d > 0, in  *)
(* the unit of the table (milliseconds).  A colour string '#rrggbb' is     *)
(* held as the record of its three channels.                               *)
(***************************************************************************)
EXTENDS Integers, Sequences, FiniteSets, TLC

VARIABLES
    fnPc,       \* one call of a function: "off" | "in" | "done"
    fnIn,       \* the input the function is applied to
    fnOut,      \* what it returned
    mainPc,     \* main(): "csv" | "geo" (awaiting loadCSV / loadGeoJSON) |
                \*         "done" | "csvFailed" | "geoFailed"
    geoLayer,   \* whether geoLayer is set
    selSrc,     \* value of the #srcSelect dropdown ("" while it has none)
    selMetric,  \* value of the #metricSelect dropdown
    scaleCfg,
    metricValues,
    renderState,
    refreshScheduled,
    refreshPending,
    frame,      \* "idle" | "raf1" (outer frame callback queued) |
                \* "raf2" (runRefresh queued) | inside runRefresh, before
                \* "build" (line 348) | "style" (349) | "legend" (350)
    mapLoading, \* the 'active' class of #mapLoading
    painted,    \* feature -> the style the layer shows it with
    legend,     \* content of the legend control
    hover,      \* the feature under the pointer, or "none"
    snapCfg,    \* history: scaleCfg when the snapshot was last rebuilt
    burst       \* history: signals and passes since the scheduler left idle

----------------------------------------------------------------------------
(* Bounds of the model *)

MaxN == 100            \* largest sample count n of a row
MaxPasses == 3         \* passes counted in the history of a burst

----------------------------------------------------------------------------
(* JavaScript values *)

Abs(x) == IF x < 0 THEN -x ELSE x
Max2(a, b) == IF a >= b THEN a ELSE b
Min2(a, b) == IF a <= b THEN a ELSE b

RECURSIVE Gcd(_, _)
Gcd(a, b) == IF b = 0 THEN a ELSE Gcd(b, a % b)

\* A number is v/d * 2^e: e is 0 but for the numbers of Scaled below.
\* The number n/d (d # 0), in lowest terms with a positive denominator.
Rat(n, d) ==
    LET s == IF d < 0 THEN -1 ELSE 1
        g == Gcd(Abs(n), Abs(d))
    IN  [t |-> "num", v |-> (s * n) \div g, d |-> Abs(d) \div g, e |-> 0]

Num(k) == [t |-> "num", v |-> k, d |-> 1, e |-> 0]
Null == [t |-> "null", v |-> 0, d |-> 1, e |-> 0]
Undef == [t |-> "undef", v |-> 0, d |-> 1, e |-> 0]
NaN == [t |-> "nan", v |-> 0, d |-> 1, e |-> 0]
\* Cells of the parsed table that are not numeric text: PapaParse runs with
\* dynamicTyping off, so a cell is a string, or undefined when the column
\* is missing.
Blank == [t |-> "blank", v |-> 0, d |-> 1, e |-> 0]     \* ''
Space == [t |-> "space", v |-> 0, d |-> 1, e |-> 0]     \* '   '
Text == [t |-> "text", v |-> 0, d |-> 1, e |-> 0]       \* 'abc'

\* k * 2^34 for an integer k # 0: a number beyond the 32-bit integers, of
\* magnitude at least 2^34.
Scaled(k) == [t |-> "num", v |-> k, d |-> 1, e |-> 34]

IsNum(x) == x.t = "num"
\* a < b, both numbers
Less(a, b) ==
    IF a.e = b.e THEN a.v * b.d < b.v * a.d
    ELSE IF a.e < b.e THEN b.v > 0 ELSE a.v < 0
Leq(a, b) == ~Less(b, a)
NonNeg(x) == IsNum(x) /\ x.v >= 0

\* Math.round of the number n/d (d > 0): the nearest integer, halves up.
MathRound(n, d) == (2 * n + d) \div (2 * d)

\* Number(v): the empty and the whitespace-only string convert to 0, other
\* non-numeric text and undefined to NaN.
ToNumber(c) ==
    CASE c.t = "num" -> c
      [] c.t \in {"blank", "space", "null"} -> Num(0)
      [] OTHER -> NaN

isFiniteNumber(x) == x.t = "num"

parseNum(c) ==
    LET n == ToNumber(c)
    IN  IF n.t = "num" THEN n ELSE Null

----------------------------------------------------------------------------
(* StatisticsEstimator *)

firstNonNegative(values) ==
    IF \E i \in 1..Len(values) : values[i] # Null /\ values[i].v >= 0
    THEN LET i == CHOOSE i \in 1..Len(values) :
                      /\ values[i] # Null /\ values[i].v >= 0
                      /\ \A j \in 1..(i - 1) : ~(values[j] # Null /\ values[j].v >= 0)
         IN  values[i]
    ELSE Null

\* Sample counts n at which the double product 0.70 * n falls just below
\* k + 1/2 although 7n/10 is exactly k + 1/2, so that Math.round rounds it
\* down (0.70 * 45 is 31.499999999999996, 0.70 * 85 is 59.49999999999999).
\* No other product of the thresholds with an n up to 164 is affected.
HalfBelow70 == {45, 85}

\* Math.round(invalidFrac * n) for the fraction f = fn/fd.
RoundFracTimes(f, n) ==
    IF f = Rat(7, 10) /\ n \in HalfBelow70
    THEN MathRound(f.v * n, f.d) - 1
    ELSE MathRound(f.v * n, f.d)

FracMax(a, b) == IF Less(a, b) THEN b ELSE a

\* Lines 178-181: the invalid share from the percentile bands.
InvalidFrac(p50, p90, p95, n) ==
    LET f0 == FracMax(Rat(1, Max2(1, n)), Rat(1, 100))
        f1 == IF p50 # Null /\ p50.v < 0 THEN FracMax(f0, Rat(70, 100)) ELSE f0
        f2 == IF p90 # Null /\ p90.v < 0 THEN FracMax(f1, Rat(925, 1000)) ELSE f1
        f3 == IF p95 # Null /\ p95.v < 0 THEN FracMax(f2, Rat(975, 1000)) ELSE f2
    IN  f3

\* Line 184.
ClampLowOnly(invalidCount, n) == Max2(1, invalidCount)
ClampInvalidCount(invalidCount, n) == Min2(n - 1, Max2(1, invalidCount))

estimateInvalidCount(row, n) ==
    LET min == parseNum(row.min_ms)
        p50 == parseNum(row.p50_ms)
        p90 == parseNum(row.p90_ms)
        p95 == parseNum(row.p95_ms)
        max == parseNum(row.max_ms)
    IN  IF max = Num(-1) THEN n
        ELSE IF min # Num(-1) THEN 0
        ELSE ClampInvalidCount(RoundFracTimes(InvalidFrac(p50, p90, p95, n), n), n)

\* Lines 196-197 of computeAverageMs: the rows that have no average.
NoMaxCheck(n, mean, max) == n <= 0 \/ mean = Null
NoAverage(n, mean, max) == n <= 0 \/ mean = Null \/ max = Num(-1)

computeAverageMs(row) ==
    LET existing == parseNum(row.average_ms)
        nRaw == parseNum(row.n)
        n == IF IsNum(nRaw) THEN MathRound(nRaw.v, nRaw.d) ELSE 0
        mean == parseNum(row.mean_ms)
        min == parseNum(row.min_ms)
        max == parseNum(row.max_ms)
        invalidCount == estimateInvalidCount(row, n)
        corrected == Rat(mean.v * n + invalidCount * mean.d,
                         (n - invalidCount) * mean.d)
        fallback == firstNonNegative(<<parseNum(row.p50_ms), parseNum(row.p90_ms),
                                       parseNum(row.p95_ms), parseNum(row.max_ms)>>)
    IN  IF existing # Null THEN existing
        ELSE IF NoAverage(n, mean, max) THEN Num(-1)
        ELSE IF min # Num(-1) /\ mean.v >= 0 THEN mean
        ELSE IF invalidCount >= n THEN Num(-1)
        ELSE IF corrected.v >= 0 THEN corrected
        ELSE IF fallback = Null THEN Num(-1) ELSE fallback

enrichAverageMetric(row) == [row EXCEPT !.average_ms = computeAverageMs(row)]

----------------------------------------------------------------------------
(* MetricValueIndex *)

DEFAULT_METRIC == "average_ms"
METRIC_FIELDS ==
    <<DEFAULT_METRIC, "mean_ms", "p50_ms", "p90_ms", "p95_ms", "min_ms", "max_ms">>
MetricNames == {METRIC_FIELDS[i] : i \in 1..Len(METRIC_FIELDS)}

\* Line 228: the cells that count as a value of the metric.
Indexed(v) == v # Null /\ v.v >= 0

RECURSIVE CollectValues(_, _)
CollectValues(rows, metric) ==
    IF rows = <<>> THEN <<>>
    ELSE LET v == parseNum(Head(rows)[metric])
         IN  (IF Indexed(v) THEN <<v>> ELSE <<>>) \o CollectValues(Tail(rows), metric)

\* metric -> the ascending sequence of its valid values over the rows.
buildMetricValues(rows) ==
    [metric \in MetricNames |-> SortSeq(CollectValues(rows, metric), Less)]

----------------------------------------------------------------------------
(* Arithmetic on numbers *)

Lcm(a, b) == (a \div Gcd(a, b)) * b

RatAdd(x, y) ==
    LET l == Lcm(x.d, y.d)
    IN  Rat(x.v * (l \div x.d) + y.v * (l \div y.d), l)

RatSub(x, y) ==
    LET l == Lcm(x.d, y.d)
    IN  Rat(x.v * (l \div x.d) - y.v * (l \div y.d), l)

\* x / y for y # 0, cancelling before multiplying.
RatDiv(x, y) ==
    LET g1 == Gcd(Abs(x.v), Abs(y.v))
        g2 == Gcd(x.d, y.d)
    IN  Rat((x.v \div g1) * (y.d \div g2), (x.d \div g2) * (y.v \div g1))

\* a*(1-t) + b*t for t = r/100.
Mix(a, b, r) ==
    LET l == Lcm(a.d, b.d)
    IN  Rat(a.v * (l \div a.d) * (100 - r) + b.v * (l \div b.d) * r, 100 * l)

\* Math.max of two values: NaN as soon as one of them is not a number.
MathMax(x, y) ==
    IF ~IsNum(x) \/ ~IsNum(y) THEN NaN
    ELSE IF Less(x, y) THEN y ELSE x

\* x + y of two values, in double precision: the doubles from 2^34 on lie
\* 2^-18 apart, so adding less than 2^-19 to one of them returns it.
Plus(x, y) ==
    IF ~IsNum(x) \/ ~IsNum(y) THEN NaN
    ELSE IF x.e > y.e /\ Abs(y.v) * 2^19 < y.d THEN x
    ELSE RatAdd(x, y)

Epsilon == Rat(1, 1000000)       \* 1e-6

----------------------------------------------------------------------------
(* ScaleComputer *)

\* vals[i] for the 0-based index i: undefined outside the array.
ElemAt(vals, i) == IF i >= 0 /\ i < Len(vals) THEN vals[i + 1] ELSE Undef

\* The q of computeGlobalScale (lines 145-151), p in percent.
Percentile(vals, p) ==
    LET x == p * (Len(vals) - 1)         \* 100 * idx
        lo == x \div 100                 \* Math.floor(idx)
        r == x % 100
        hi == IF r = 0 THEN lo ELSE lo + 1
        a == ElemAt(vals, lo)
        b == ElemAt(vals, hi)
    IN  IF lo = hi THEN a
        ELSE IF IsNum(a) /\ IsNum(b) THEN Mix(a, b, r) ELSE NaN

\* Line 156.
GuardedMax(max, min) == MathMax(max, Plus(min, Epsilon))

computeGlobalScale(metric) ==
    LET vals == metricValues[metric]
        min == Percentile(vals, scaleCfg.pLow)
        max == Percentile(vals, scaleCfg.pHigh)
    IN  IF Len(vals) = 0 THEN [min |-> Num(0), max |-> Num(1)]
        ELSE [min |-> min, max |-> GuardedMax(max, min)]

----------------------------------------------------------------------------
(* ColorMapper *)

Rgb(r, g, b) == [r |-> r, g |-> g, b |-> b]
Green == Rgb(0, 176, 80)             \* '#00b050'
Red == Rgb(255, 0, 0)                \* '#ff0000'
NaNColor == Rgb(-1, -1, -1)          \* '#NaNNaNNaN'
selectedSourceColor == Rgb(47, 107, 255)
selectedSourceBorderColor == "#163dba"

\* clamp01 of the number n/d.
clamp01(t) == IF t.v < 0 THEN Num(0) ELSE IF t.v > t.d THEN Num(1) ELSE t

\* lerp(a, b, t) for integers a, b.
lerpSwapped(a, b, t) == Rat(b * t.d + (a - b) * t.v, t.d)
lerp(a, b, t) == Rat(a * t.d + (b - a) * t.v, t.d)

Channel(a, b, t) == LET x == lerp(a, b, t) IN MathRound(x.v, x.d)

\* The colour at the normalised position t (lines 131-138).
RampColor(t) ==
    IF ~IsNum(t) THEN NaNColor
    ELSE Rgb(Channel(Green.r, Red.r, t), Channel(Green.g, Red.g, t),
             Channel(Green.b, Red.b, t))

\* Math.log10 where it is exact: at the powers of ten.
Log10(x) ==
    CASE x = Epsilon -> -6
      [] x = Num(1) -> 0
      [] x = Num(10) -> 1
      [] x = Num(100) -> 2
      [] x = Num(1000) -> 3

\* clamp01((vv - a) / (b - a || 1)) of the linear transform.
LinearPosition(v, minV, maxV) ==
    IF ~IsNum(minV) THEN NaN
    ELSE LET diff == IF IsNum(maxV) THEN RatSub(maxV, minV) ELSE NaN
             den == IF ~IsNum(diff) \/ diff.v = 0 THEN Num(1) ELSE diff
         IN  clamp01(RatDiv(RatSub(v, minV), den))

\* The same of the log transform, on log10(max(eps, x)).  log10 increases,
\* so the position is 0 or 1 by the order of the floored arguments alone
\* unless the value lies strictly inside the range; there the three
\* logarithms are needed, and are taken at powers of ten.
LogPosition(v, minV, maxV) ==
    IF ~IsNum(minV) THEN NaN
    ELSE LET vv == FracMax(Epsilon, v)
             a == FracMax(Epsilon, minV)
             b == IF IsNum(maxV) THEN FracMax(Epsilon, maxV) ELSE NaN
             ten == RatDiv(a, Rat(1, 10))
         IN  IF ~IsNum(b) \/ b = a
             THEN \* denominator 1
                  IF Leq(vv, a) THEN Num(0)
                  ELSE IF Leq(ten, vv) THEN Num(1)
                  ELSE Rat(Log10(vv) - Log10(a), 1)
             ELSE IF Less(a, b)
             THEN IF Leq(vv, a) THEN Num(0)
                  ELSE IF Leq(b, vv) THEN Num(1)
                  ELSE Rat(Log10(vv) - Log10(a), Log10(b) - Log10(a))
             ELSE IF Leq(a, vv) THEN Num(0)
                  ELSE IF Leq(vv, b) THEN Num(1)
                  ELSE Rat(Log10(vv) - Log10(a), Log10(b) - Log10(a))

\* valueToColor under the scale configuration cfg.
ColorWith(v, minV, maxV, cfg) ==
    IF ~isFiniteNumber(v) THEN cfg.missingColor
    ELSE IF cfg.transform = "log" THEN RampColor(LogPosition(v, minV, maxV))
    ELSE RampColor(LinearPosition(v, minV, maxV))

valueToColor(v, minV, maxV) == ColorWith(v, minV, maxV, scaleCfg)

----------------------------------------------------------------------------
(* The table and the map features *)

TableRow(src, dst, avg, mean, min, p50, p90, p95, max) ==
    [src_country |-> src, dst_country |-> dst, average_ms |-> avg, n |-> Num(10),
     mean_ms |-> mean, min_ms |-> min, p50_ms |-> p50, p90_ms |-> p90,
     p95_ms |-> p95, max_ms |-> max]

\* The rows Papa.parse returns: A -> B and B -> A measured, A -> C without a
\* valid sample, and a row without destination.
ParsedRows ==
    << TableRow("A", "B", Undef, Num(10), Num(1), Num(10), Num(100), Num(100), Num(100)),
       TableRow("B", "A", Undef, Num(100), Num(10), Num(100), Num(1000), Num(1000), Num(1000)),
       TableRow("A", "C", Undef, Num(-1), Num(-1), Num(-1), Num(-1), Num(-1), Num(-1)),
       TableRow("B", "", Undef, Num(10), Num(1), Num(10), Num(100), Num(100), Num(100)) >>

\* loadCSV: the parsed rows, each enriched with its average.
rttRows == [i \in 1..Len(ParsedRows) |-> enrichAverageMetric(ParsedRows[i])]

\* buildIndex: the rows with a source and a destination, by source and
\* destination (the last row of a pair wins); NoRow where there is none.
NoRow == [src_country |-> "", dst_country |-> ""]
RowOf(rows, src, dst) ==
    LET hits == {i \in 1..Len(rows) :
                    /\ rows[i].src_country # "" /\ rows[i].dst_country # ""
                    /\ rows[i].src_country = src /\ rows[i].dst_country = dst}
    IN  IF hits = {} THEN NoRow
        ELSE rows[CHOOSE i \in hits : \A j \in hits : j <= i]

bySrc(src, dst) == RowOf(rttRows, src, dst)

\* allSrcCountries, sorted; empty until the table is loaded.
allSrcCountries == IF mainPc \in {"csv", "csvFailed"} THEN <<>> ELSE <<"A", "B">>

\* The features of the GeoJSON, by their ISO code (getFeatureIso2).
Features == {"A", "B", "C"}

----------------------------------------------------------------------------
(* RenderStateCoordinator *)

getCurrentSrc ==
    IF selSrc # "" THEN selSrc
    ELSE IF Len(allSrcCountries) > 0 THEN allSrcCountries[1] ELSE ""

getCurrentMetric == IF selMetric # "" THEN selMetric ELSE DEFAULT_METRIC

\* The object buildRenderState leaves in renderState.
buildRenderState ==
    LET metric == getCurrentMetric
        scale == IF scaleCfg.auto THEN computeGlobalScale(metric)
                 ELSE [min |-> scaleCfg.minMs, max |-> scaleCfg.maxMs]
    IN  [src |-> getCurrentSrc, metric |-> metric,
         scaleMin |-> scale.min, scaleMax |-> scale.max]

\* styleForFeature from line 304 on, for the row of the feature.
StyleOfRow(isSelectedSource, row, rs, cfg) ==
    LET v == IF row # NoRow THEN parseNum(row[rs.metric]) ELSE Null
        valid == v # Null /\ v.v >= 0
        fill == IF isSelectedSource THEN selectedSourceColor
                ELSE IF valid THEN ColorWith(v, rs.scaleMin, rs.scaleMax, cfg)
                ELSE cfg.missingColor
    IN  [weight |-> IF isSelectedSource THEN 2 ELSE 1,
         opacity |-> IF isSelectedSource THEN 100 ELSE 90,
         color |-> IF isSelectedSource THEN selectedSourceBorderColor ELSE "#666",
         fillOpacity |-> IF isSelectedSource THEN 95 ELSE 85,
         fillColor |-> fill]

\* styleForFeature with the snapshot rs, under the scale configuration cfg.
StyleWith(feature, rs, cfg) ==
    StyleOfRow(rs.src # "" /\ feature = rs.src, bySrc(rs.src, feature), rs, cfg)

styleForFeature(feature) == StyleWith(feature, renderState, scaleCfg)

\* x.toFixed(1): the tenths of a number, "NaN" of NaN.
ToFixed1(x) == IF IsNum(x) THEN Rat(MathRound(10 * x.v, x.d), 10) ELSE NaN

\* The value text of the tooltip: the tenths of the value, or Null for 'n/a'.
TooltipOfRow(feature, src, metric, row) ==
    LET v == IF row # NoRow THEN parseNum(row[metric]) ELSE Null
    IN  [iso2 |-> feature, src |-> src, metric |-> metric,
         vTxt |-> IF v # Null /\ v.v >= 0 THEN ToFixed1(v) ELSE Null]

TooltipFrom(feature, src, metric) ==
    TooltipOfRow(feature, src, metric, bySrc(src, feature))

tooltipHtml(feature) ==
    TooltipFrom(feature,
                IF renderState.src # "" THEN renderState.src ELSE getCurrentSrc,
                IF renderState.metric # "" THEN renderState.metric
                ELSE getCurrentMetric)

\* updateLegend throws where it calls toFixed on undefined.
updateLegendThrows == renderState.scaleMin.t = "undef" \/ renderState.scaleMax.t = "undef"

\* The legend updateLegend writes.
updateLegend ==
    [metric |-> IF renderState.metric # "" THEN renderState.metric
                 ELSE getCurrentMetric,
     minTxt |-> ToFixed1(renderState.scaleMin),
     maxTxt |-> ToFixed1(renderState.scaleMax),
     pLow |-> IF scaleCfg.transform = "log" THEN scaleCfg.pLow ELSE 0,
     pHigh |-> IF scaleCfg.transform = "log" THEN scaleCfg.pHigh ELSE 0,
     auto |-> scaleCfg.auto, transform |-> scaleCfg.transform]

----------------------------------------------------------------------------
(* The rows the estimator is applied to *)

AverageCells == {Undef, Blank, Num(42)}
CountCells == {Num(k) : k \in 0..MaxN} \cup {Blank, Text}
MeanCells == {Blank, Num(-1), Num(30), Num(50)}
MinCells == {Num(-1), Num(5)}
P50Cells == {Num(-1), Num(40)}
P90Cells == {Num(-1), Num(10), Undef}
P95Cells == {Num(-1), Num(20), Num(60)}
MaxCells == {Num(-1), Num(80)}

Rows ==
    [average_ms : AverageCells, n : CountCells, mean_ms : MeanCells,
     min_ms : MinCells, p50_ms : P50Cells, p90_ms : P90Cells,
     p95_ms : P95Cells, max_ms : MaxCells]

fnVars == <<fnPc, fnIn, fnOut>>
appVars == <<mainPc, geoLayer, selSrc, selMetric, scaleCfg, metricValues,
             renderState, refreshScheduled, refreshPending, frame, mapLoading,
             painted, legend, hover, snapCfg, burst>>
vars == <<fnVars, appVars>>

----------------------------------------------------------------------------
(* Initial state of the page: main() has run up to its first await *)

White == Rgb(221, 221, 221)          \* '#dddddd'
Black == Rgb(0, 0, 0)                \* '#000000'

DefaultScaleCfg ==
    [auto |-> TRUE, minMs |-> Num(20), maxMs |-> Num(300), pLow |-> 5,
     pHigh |-> 95, transform |-> "linear", missingColor |-> White]

NoStyle == [weight |-> 0, opacity |-> 0, color |-> "", fillOpacity |-> 0,
            fillColor |-> White]
NoLegend == [metric |-> "", minTxt |-> NaN, maxTxt |-> NaN, pLow |-> 0,
             pHigh |-> 0, auto |-> TRUE, transform |-> ""]
NoBurst == [passes |-> 0, late |-> FALSE, later |-> FALSE]

\* The page before anything is selected, scheduled or painted.
PageIdle ==
    /\ mainPc = "csv"
    /\ geoLayer = FALSE
    /\ selSrc = ""
    /\ renderState = [src |-> "", metric |-> DEFAULT_METRIC,
                      scaleMin |-> Num(0), scaleMax |-> Num(1)]
    /\ refreshScheduled = FALSE
    /\ refreshPending = FALSE
    /\ frame = "idle"
    /\ mapLoading = TRUE
    /\ painted = [f \in Features |-> NoStyle]
    /\ legend = NoLegend
    /\ hover = "none"
    /\ burst = NoBurst

AppInit ==
    /\ PageIdle
    /\ selMetric = ""
    /\ scaleCfg = DefaultScaleCfg
    /\ snapCfg = DefaultScaleCfg
    /\ metricValues = [m \in MetricNames |-> <<>>]

FnIdle == fnPc = "off" /\ fnIn = Null /\ fnOut = Null

Init == AppInit /\ FnIdle

----------------------------------------------------------------------------
(* RefreshScheduler *)

InPass == frame \in {"build", "style", "legend"}

\* What the history records of a signal refreshLayer accepts.
BurstAfterSignal ==
    IF ~refreshScheduled
    THEN NoBurst
    ELSE [burst EXCEPT !.late = burst.late \/ (InPass /\ burst.passes = 1),
                       !.later = burst.later \/ (InPass /\ burst.passes > 1)]

\* refreshLayer(), lines 337-343 and 367.
refreshLayer ==
    IF ~geoLayer
    THEN UNCHANGED <<refreshPending, refreshScheduled, frame, mapLoading, burst>>
    ELSE /\ refreshPending' = TRUE
         /\ burst' = BurstAfterSignal
         /\ IF refreshScheduled
            THEN UNCHANGED <<refreshScheduled, frame, mapLoading>>
            ELSE /\ refreshScheduled' = TRUE
                 /\ mapLoading' = TRUE
                 /\ frame' = "raf1"

\* The change handlers are bound by initDropdowns and hookUI, once the table
\* is loaded.
HandlersBound == mainPc \notin {"csv", "csvFailed"}

\* A signal reaches refreshLayer between two tasks of the event loop, or
\* from inside a running pass: the pass calls into the dropdown and the map
\* layer between lines 346 and 358, and line 358 tests for a call of
\* refreshLayer made in between.
Signal == IF HandlersBound THEN refreshLayer
          ELSE UNCHANGED <<refreshPending, refreshScheduled, frame, mapLoading, burst>>

Metrics == {DEFAULT_METRIC, "max_ms"}

\* The user picks a source in the dropdown, or clicks a source country on
\* the map (setSourceFromIso2).
SelectSource(s) ==
    /\ Len(allSrcCountries) > 0
    /\ selSrc' = s
    /\ Signal
    /\ UNCHANGED <<mainPc, geoLayer, selMetric, scaleCfg, metricValues, renderState,
                   painted, legend, hover, snapCfg, fnVars>>

\* The user picks a metric in the dropdown.
SelectMetric(m) ==
    /\ selMetric' = m
    /\ Signal
    /\ UNCHANGED <<mainPc, geoLayer, selSrc, scaleCfg, metricValues, renderState,
                   painted, legend, hover, snapCfg, fnVars>>

\* What the user may have entered in the scale form when clicking Apply:
\* the initial settings, the log transform with another missing colour, a
\* low percentile beyond 100, and manual bounds with max < min.
ScaleForms ==
    { DefaultScaleCfg,
      [DefaultScaleCfg EXCEPT !.transform = "log", !.missingColor = Black],
      [DefaultScaleCfg EXCEPT !.pLow = 200],
      [DefaultScaleCfg EXCEPT !.auto = FALSE, !.minMs = Num(100), !.maxMs = Num(10)] }

\* The click handler of #applyScaleBtn, lines 436-447.
ApplyScale(form) ==
    /\ HandlersBound
    /\ scaleCfg' = form
    /\ refreshLayer
    /\ UNCHANGED <<mainPc, geoLayer, selSrc, selMetric, metricValues, renderState,
                   painted, legend, hover, snapCfg, fnVars>>

\* The first animation frame: the outer callback requests the second.
FirstFrame ==
    /\ frame = "raf1"
    /\ frame' = "raf2"
    /\ UNCHANGED <<mainPc, geoLayer, selSrc, selMetric, scaleCfg, metricValues,
                   renderState, refreshScheduled, refreshPending, mapLoading,
                   painted, legend, hover, snapCfg, burst, fnVars>>

\* runRefresh, line 346.
RunBegin ==
    /\ frame = "raf2"
    /\ refreshPending' = FALSE
    /\ frame' = "build"
    /\ burst' = [burst EXCEPT !.passes = Min2(burst.passes + 1, MaxPasses)]
    /\ UNCHANGED <<mainPc, geoLayer, selSrc, selMetric, scaleCfg, metricValues,
                   renderState, refreshScheduled, mapLoading, painted, legend,
                   hover, snapCfg, fnVars>>

\* runRefresh, line 348.
RunBuild ==
    /\ frame = "build"
    /\ renderState' = buildRenderState
    /\ snapCfg' = scaleCfg
    /\ frame' = "style"
    /\ UNCHANGED <<mainPc, geoLayer, selSrc, selMetric, scaleCfg, metricValues,
                   refreshScheduled, refreshPending, mapLoading, painted, legend,
                   hover, burst, fnVars>>

\* runRefresh, line 349.
RunStyle ==
    /\ frame = "style"
    /\ painted' = [f \in Features |-> styleForFeature(f)]
    /\ frame' = "legend"
    /\ UNCHANGED <<mainPc, geoLayer, selSrc, selMetric, scaleCfg, metricValues,
                   renderState, refreshScheduled, refreshPending, mapLoading,
                   legend, hover, snapCfg, burst, fnVars>>

\* runRefresh, lines 350-364: the legend, then the catch block or the test
\* of refreshPending.
RunEnd ==
    /\ frame = "legend"
    /\ IF updateLegendThrows
       THEN /\ refreshScheduled' = FALSE
            /\ mapLoading' = FALSE
            /\ frame' = "idle"
            /\ UNCHANGED legend
       ELSE /\ legend' = updateLegend
            /\ IF refreshPending
               THEN /\ frame' = "raf2"
                    /\ UNCHANGED <<refreshScheduled, mapLoading>>
               ELSE /\ refreshScheduled' = FALSE
                    /\ mapLoading' = FALSE
                    /\ frame' = "idle"
    /\ UNCHANGED <<mainPc, geoLayer, selSrc, selMetric, scaleCfg, metricValues,
                   renderState, refreshPending, painted, hover, snapCfg, burst,
                   fnVars>>

----------------------------------------------------------------------------
(* main() and the layer's mouse handlers *)

\* loadCSV resolved: lines 463-468.
CsvLoaded ==
    /\ mainPc = "csv"
    /\ mainPc' = "geo"
    /\ metricValues' = buildMetricValues(rttRows)
    /\ selSrc' = "A"
    /\ UNCHANGED <<geoLayer, selMetric, scaleCfg, refreshScheduled, refreshPending,
                   frame, mapLoading, painted, legend, hover, burst, fnVars>>
    /\ renderState' = buildRenderState'
    /\ snapCfg' = scaleCfg

\* loadCSV rejected.
CsvFailed ==
    /\ mainPc = "csv"
    /\ mainPc' = "csvFailed"
    /\ mapLoading' = FALSE
    /\ UNCHANGED <<geoLayer, selSrc, selMetric, scaleCfg, metricValues, renderState,
                   refreshScheduled, refreshPending, frame, painted, legend,
                   hover, snapCfg, burst, fnVars>>

\* loadGeoJSON resolved: lines 471-483.
GeoLoaded ==
    /\ mainPc = "geo"
    /\ mainPc' = "done"
    /\ geoLayer' = TRUE
    /\ painted' = [f \in Features |-> styleForFeature(f)]
    /\ legend' = updateLegend
    /\ mapLoading' = FALSE
    /\ UNCHANGED <<selSrc, selMetric, scaleCfg, metricValues, renderState,
                   refreshScheduled, refreshPending, frame, hover,
                   snapCfg, burst, fnVars>>

\* loadGeoJSON rejected.
GeoFailed ==
    /\ mainPc = "geo"
    /\ mainPc' = "geoFailed"
    /\ mapLoading' = FALSE
    /\ UNCHANGED <<geoLayer, selSrc, selMetric, scaleCfg, metricValues, renderState,
                   refreshScheduled, refreshPending, frame, painted, legend,
                   hover, snapCfg, burst, fnVars>>

\* mouseover, line 475.  Mouse events are tasks of their own: none runs
\* inside a pass.
MouseOver(f) ==
    /\ geoLayer /\ ~InPass /\ hover = "none"
    /\ hover' = f
    /\ painted' = [painted EXCEPT ![f] = [@ EXCEPT !.weight = 2, !.color = "#111"]]
    /\ UNCHANGED <<mainPc, geoLayer, selSrc, selMetric, scaleCfg, metricValues,
                   renderState, refreshScheduled, refreshPending, frame,
                   mapLoading, legend, snapCfg, burst, fnVars>>

\* mouseout, line 476: geoLayer.resetStyle(layer).
MouseOut(f) ==
    /\ geoLayer /\ ~InPass /\ hover = f
    /\ hover' = "none"
    /\ painted' = [painted EXCEPT ![f] = styleForFeature(f)]
    /\ UNCHANGED <<mainPc, geoLayer, selSrc, selMetric, scaleCfg, metricValues,
                   renderState, refreshScheduled, refreshPending, frame,
                   mapLoading, legend, snapCfg, burst, fnVars>>

Next ==
    \/ \E s \in {"A", "B"} : SelectSource(s)
    \/ \E m \in Metrics : SelectMetric(m)
    \/ \E form \in ScaleForms : ApplyScale(form)
    \/ FirstFrame
    \/ RunBegin
    \/ RunBuild
    \/ RunStyle
    \/ RunEnd
    \/ CsvLoaded
    \/ CsvFailed
    \/ GeoLoaded
    \/ GeoFailed
    \/ \E f \in Features : MouseOver(f)
    \/ \E f \in Features : MouseOut(f)

Spec == Init /\ [][Next]_vars

----------------------------------------------------------------------------
(* The estimator applied to one row *)

AppOff == AppInit

InitAverage ==
    /\ fnPc = "in"
    /\ fnIn \in Rows
    /\ fnOut = Null
    /\ AppOff

\* loadCSV, line 409: enrichAverageMetric on a row of the parsed table, and
\* the index built of it.
Enrich ==
    /\ fnPc = "in"
    /\ fnPc' = "done"
    /\ fnOut' = [avg |-> computeAverageMs(fnIn),
                 index |-> buildMetricValues(<<enrichAverageMetric(fnIn)>>)]
    /\ UNCHANGED <<fnIn, appVars>>

NextAverage == Enrich

SpecAverage == InitAverage /\ [][NextAverage]_vars

----------------------------------------------------------------------------
(* Claims about the estimator, checked under SpecAverage *)

RowFields == {"average_ms", "n", "mean_ms", "min_ms", "p50_ms", "p90_ms",
              "p95_ms", "max_ms"}
RowCount(row) == parseNum(row.n).v

\* The rows of C4: no average provided, n > 0, mean >= 0, min = -1, max # -1.
ReconstructCase(row) ==
    /\ parseNum(row.average_ms) = Null
    /\ IsNum(parseNum(row.n)) /\ RowCount(row) > 0
    /\ NonNeg(parseNum(row.mean_ms))
    /\ parseNum(row.min_ms) = Num(-1)
    /\ parseNum(row.max_ms) # Num(-1)

Negative(c) == IsNum(parseNum(c)) /\ parseNum(c).v < 0

\* 1000 * f * n for the f of C4: the maximum of max(1/n, 0.01) and of the
\* thresholds a negative percentile triggers.
ClaimFracTimesN(row, n) ==
    LET a == Max2(1000, 10 * n)
        b == IF Negative(row.p50_ms) THEN Max2(a, 700 * n) ELSE a
        c == IF Negative(row.p90_ms) THEN Max2(b, 925 * n) ELSE b
    IN  IF Negative(row.p95_ms) THEN Max2(c, 975 * n) ELSE c

\* clamp(round(f * n), 1, n - 1), the round being Math.round of the double
\* product.
ClaimCount(row, n) ==
    LET x == ClaimFracTimesN(row, n)
        r == IF x = 700 * n /\ n \in HalfBelow70
             THEN MathRound(x, 1000) - 1 ELSE MathRound(x, 1000)
    IN  Min2(n - 1, Max2(1, r))

ReconstructsWith(row, out, k) ==
    LET n == RowCount(row)
        mean == parseNum(row.mean_ms)
    IN  /\ k = ClaimCount(row, n)
        /\ out.avg.v * (n - k) * mean.d = (mean.v * n + k * mean.d) * out.avg.d
        /\ IsNum(out.avg)

Example169(row) ==
    /\ row.n = Num(100) /\ row.mean_ms = Num(50) /\ row.min_ms = Num(-1)
    /\ row.p50_ms = Num(-1) /\ row.p90_ms = Num(10) /\ row.p95_ms = Num(20)
    /\ row.max_ms = Num(80)
Example309(row) ==
    /\ row.n = Num(10) /\ row.mean_ms = Num(30) /\ row.min_ms = Num(-1)
    /\ row.p50_ms = Num(40) /\ row.p90_ms = Num(-1) /\ row.p95_ms = Num(60)
    /\ row.max_ms = Num(80)
ExamplesHold(row, out, k) ==
    /\ Example169(row) => k = 70 /\ out.avg = Num(169)
    /\ Example309(row) => k = 9 /\ out.avg = Num(309)

\* C4 as claimed: for every row of the reconstruction case (n > 0) the
\* invalid count k is clamp(round(f*n), 1, n-1), satisfies 1 <= k <= n-1
\* and the result is (mean*n + k) / (n - k); the two worked examples give
\* k = 70, 169 and k = 9, 309.
C4_CountWithinOneAndNMinusOne ==
    fnPc = "done" /\ ReconstructCase(fnIn) =>
        LET n == RowCount(fnIn)
            k == estimateInvalidCount(fnIn, n)
        IN  /\ 1 <= k /\ k <= n - 1
            /\ ReconstructsWith(fnIn, fnOut, k)
            /\ ExamplesHold(fnIn, fnOut, k)

\* C4 amended: the same for every row of the reconstruction case with
\* n >= 2; for n = 1 the clamp yields k = 0 and the mean itself is returned.
C4_CountWithinRangeFromTwo ==
    fnPc = "done" /\ ReconstructCase(fnIn) =>
        LET n == RowCount(fnIn)
            k == estimateInvalidCount(fnIn, n)
        IN  /\ ReconstructsWith(fnIn, fnOut, k)
            /\ ExamplesHold(fnIn, fnOut, k)
            /\ n >= 2 => 1 <= k /\ k <= n - 1
            /\ n = 1 => k = 0 /\ fnOut.avg = parseNum(fnIn.mean_ms)

C4_Witness ==
    /\ fnPc = "done" /\ ReconstructCase(fnIn) /\ Example309(fnIn)
    /\ fnIn.average_ms = Undef
    /\ fnOut.avg = Num(309)

\* C5 as claimed: a row whose max_ms is -1 has the average -1, whatever its
\* other fields hold, average_ms included.
C5_MaxSentinelAlwaysMinusOne ==
    fnPc = "done" /\ parseNum(fnIn.max_ms) = Num(-1) => fnOut.avg = Num(-1)

\* C5 amended: a row whose max_ms is -1 and whose average_ms coerces to no
\* number has the average -1, whatever its other fields hold.
C5_MaxSentinelWithoutAverage ==
    fnPc = "done" /\ parseNum(fnIn.max_ms) = Num(-1)
                  /\ parseNum(fnIn.average_ms) = Null
        => fnOut.avg = Num(-1)

C5_Witness ==
    /\ fnPc = "done" /\ fnIn.max_ms = Num(-1) /\ fnIn.average_ms = Undef
    /\ fnIn.n = Num(10) /\ fnIn.mean_ms = Num(30) /\ fnIn.min_ms = Num(5)
    /\ fnOut.avg = Num(-1)

\* C8: a cell that holds no number (blank, whitespace, other text, missing)
\* coerces to absent, so it adds no value to the index of its metric and is
\* not taken as a provided average.
C8_NonNumericCellIsAbsent ==
    fnPc = "done" =>
        \A f \in RowFields :
            fnIn[f].t # "num" =>
                /\ parseNum(fnIn[f]) = Null
                /\ f \in MetricNames \ {DEFAULT_METRIC} => fnOut.index[f] = <<>>
                /\ f = DEFAULT_METRIC =>
                       fnOut.avg = computeAverageMs([fnIn EXCEPT !.average_ms = Undef])

----------------------------------------------------------------------------
(* Claims about the page, checked under Spec *)

C3_StyleReadsSnapshotOnly ==
    geoLayer =>
        \A f \in Features :
            /\ styleForFeature(f) = StyleWith(f, renderState, snapCfg)
            /\ frame # "style" =>
                   painted[f].fillColor = StyleWith(f, renderState, snapCfg).fillColor

\* C10: whenever start-up has completed and the scheduler is idle, the
\* snapshot holds the selected source and metric and the scale of the
\* current metric and scale configuration.
C10_SnapshotCurrentWhenIdle ==
    mainPc = "done" /\ ~refreshScheduled =>
        /\ renderState.src = getCurrentSrc
        /\ renderState.metric = getCurrentMetric
        /\ renderState.scaleMin = buildRenderState.scaleMin
        /\ renderState.scaleMax = buildRenderState.scaleMax

----------------------------------------------------------------------------
(* The scale of one recompute, over the contents of the value index *)

MaxLen == 3            \* longest value sequence of the index
MaxVal == 3            \* largest value of the index, in ms; and 2^34 ms

\* The sequences buildMetricValues can leave for a metric: ascending, of
\* values >= 0.
AscendingOf(k) ==
    {q \in [1..k -> 0..MaxVal] : \A i \in 1..(k - 1) : q[i] <= q[i + 1]}
IndexContents ==
    UNION {{[i \in 1..k |-> Num(s[i])] : s \in AscendingOf(k)} : k \in 0..MaxLen}
    \cup {<<Scaled(1)>>}

\* The percentile fields of the scale form, within [0, 100].
Percents == {5 * k : k \in 0..20}

InitScale ==
    /\ PageIdle
    /\ fnPc = "in" /\ fnIn = Null /\ fnOut = Null
    /\ selMetric \in Metrics \cup {""}
    /\ \E vals \in IndexContents : metricValues = [m \in MetricNames |-> vals]
    /\ \E a \in BOOLEAN, lo \in Percents, hi \in Percents :
           scaleCfg = [DefaultScaleCfg EXCEPT !.auto = a, !.pLow = lo, !.pHigh = hi]
    /\ snapCfg = DefaultScaleCfg

\* runRefresh, line 348.
Recompute ==
    /\ fnPc = "in"
    /\ fnPc' = "done"
    /\ renderState' = buildRenderState
    /\ snapCfg' = scaleCfg
    /\ UNCHANGED <<fnIn, fnOut, mainPc, geoLayer, selSrc, selMetric, scaleCfg,
                   metricValues, refreshScheduled, refreshPending, frame,
                   mapLoading, painted, legend, hover, burst>>

NextScale == Recompute

SpecScale == InitScale /\ [][NextScale]_vars

\* C6: in auto mode the stored scale has scaleMax > scaleMin for every
\* content of the value index and all percentiles in [0, 100]: {0, 1} for an
\* empty sequence, and max replaced by min + 1e-6 when the percentile max
\* does not exceed the percentile min.
C6_AutoScaleMaxAboveMin ==
    fnPc = "done" /\ scaleCfg.auto =>
        LET vals == metricValues[getCurrentMetric]
            lo == Percentile(vals, scaleCfg.pLow)
            hi == Percentile(vals, scaleCfg.pHigh)
        IN  /\ Less(renderState.scaleMin, renderState.scaleMax)
            /\ Len(vals) = 0 =>
                   renderState.scaleMin = Num(0) /\ renderState.scaleMax = Num(1)
            /\ Len(vals) > 0 =>
                   /\ renderState.scaleMin = lo
                   /\ renderState.scaleMax = IF Leq(hi, lo) THEN Plus(lo, Epsilon) ELSE hi

----------------------------------------------------------------------------
(* The colour mapper applied to one value *)

MaxV == 1001           \* largest value mapped under the linear transform, in ms

RangeEnds == {Num(-1), Num(0), Num(1), Num(10), Num(100), Num(1000)}
NoValues == {Null, Undef, NaN}
LinearValues == {Num(k) : k \in -1..MaxV} \cup NoValues
LogValues == RangeEnds \cup NoValues

InitColor ==
    /\ PageIdle
    /\ fnPc = "in" /\ fnOut = Null
    /\ selMetric = ""
    /\ metricValues = [m \in MetricNames |-> <<>>]
    /\ \E tr \in {"linear", "log"}, mc \in {White, Black} :
           scaleCfg = [DefaultScaleCfg EXCEPT !.transform = tr, !.missingColor = mc]
    /\ snapCfg = DefaultScaleCfg
    /\ fnIn \in [v : LinearValues, min : RangeEnds, max : RangeEnds]
    /\ scaleCfg.transform = "log" => fnIn.v \in LogValues

\* The call of line 311, without the guard of line 305 around it.
Paint ==
    /\ fnPc = "in"
    /\ fnPc' = "done"
    /\ fnOut' = valueToColor(fnIn.v, fnIn.min, fnIn.max)
    /\ UNCHANGED <<fnIn, appVars>>

NextColor == Paint

SpecColor == InitColor /\ [][NextColor]_vars

\* C7: valueToColor returns the configured missing colour for every value
\* that is absent or is not a finite number >= 0 (the sentinel -1, an absent
\* value, NaN), for any min, max and either transform.
C7_MissingColourBelowZero ==
    fnPc = "done" /\ ~(isFiniteNumber(fnIn.v) /\ fnIn.v.v >= 0) =>
        fnOut = scaleCfg.missingColor

LinearCase ==
    /\ fnPc = "done" /\ scaleCfg.transform = "linear"
    /\ isFiniteNumber(fnIn.v) /\ Less(fnIn.min, fnIn.max)
StrictlyInside == Less(fnIn.min, fnIn.v) /\ Less(fnIn.v, fnIn.max)
Between(x, a, b) == Min2(a, b) <= x /\ x <= Max2(a, b)

\* C9 as claimed: under the linear transform and min < max, the colour of a
\* value strictly between min and max differs from both anchors, the
\* colour at min is the fast anchor and the colour at max the slow anchor.
C9_StrictlyBetweenAnchors ==
    LinearCase =>
        /\ StrictlyInside => fnOut # Green /\ fnOut # Red
        /\ fnIn.v = fnIn.min => fnOut = Green
        /\ fnIn.v = fnIn.max => fnOut = Red

\* C9 amended: the colour at min is the fast anchor and at max the slow
\* anchor; strictly between, every channel lies between the anchors'
\* channels, and the rounding to integers returns the fast anchor exactly
\* when (v - min) / (max - min) < 1/510 and the slow anchor exactly when
\* (max - v) / (max - min) <= 1/510.
C9_BetweenAnchorsUpToRounding ==
    LinearCase =>
        LET up == RatSub(fnIn.v, fnIn.min)
            down == RatSub(fnIn.max, fnIn.v)
            range == RatSub(fnIn.max, fnIn.min)
        IN  /\ fnIn.v = fnIn.min => fnOut = Green
            /\ fnIn.v = fnIn.max => fnOut = Red
            /\ StrictlyInside =>
                   /\ Between(fnOut.r, Green.r, Red.r)
                   /\ Between(fnOut.g, Green.g, Red.g)
                   /\ Between(fnOut.b, Green.b, Red.b)
                   /\ fnOut = Green <=> Less(Rat(510 * up.v, up.d), range)
                   /\ fnOut = Red <=> Leq(Rat(510 * down.v, down.d), range)

C9_Witness ==
    /\ LinearCase /\ StrictlyInside
    /\ fnIn.min = Num(0) /\ fnIn.max = Num(1000) /\ fnIn.v = Num(1)
    /\ fnOut = Green

============================================================================
